---- MODULE Spec2Model ----
(***************************************************************************)
(* Model of conflict-bot's run (src/index.js): the focal pull request is   *)
(* compared with every other open pull request through a shared git        *)
(* workspace.  Every execSync call and every GitHub API call is one step   *)
(* whose outcome (success, or a thrown error) is chosen by the             *)
(* environment.  The git workspace is the set of temporary refs            *)
(* refs/remotes/origin/tmp_<branch>, the checked-out ref and the state of  *)
(* the uncommitted merge.                                                  *)
(***************************************************************************)
EXTENDS Integers, Sequences, FiniteSets, TLC

\* ------------------------------------------------------------------ bounds
\* Largest number of other open pull requests returned by the listing.
MaxPRs == 2

\* Largest number of lines of a conflicted file, and of lines on one side of
\* a conflict block.
MaxLines == 12
MaxBlockLen == 2
\* Largest number of lines of one patch text.
MaxPatchLines == 3
\* Largest line number in a list handed to createConflictComment.
MaxLineNumber == 7

\* ------------------------------------------------------------ input domains
Users == {"alice", "bob"}
Branches == {"b1", "b2"}
\* The focal pull request's author and head branch.  Users and branches are
\* only ever compared for equality, so one choice of each stands for all.
FocalAuthors == {"alice"}
FocalBranches == {"b1"}
Files == {"a.txt", "b.txt"}
\* Line-number lists extractConflictingLineNumbers may hand back for a file.
ExtractResults == {<< >>, <<2>>}
\* Lines of a conflicted file: the markers git writes, and other text.
OpenMarkers == {"<<<<<<< HEAD"}
SeparatorMarkers == {"======="}
CloseMarkers == {">>>>>>> pr2"}
TextLines == {"a", "b"}
FileLines == OpenMarkers \cup SeparatorMarkers \cup CloseMarkers \cup TextLines
\* Lines of a patch text.  A hunk header carries its new-range start and
\* whether both ranges are written with a count ("@@ -3,2 +3,4 @@") or not
\* ("@@ -3 +3 @@"); any line carries its characters.
HunkStarts == {1, 3}
HunkHeaders == [kind : {"hunk"}, start : HunkStarts, counts : BOOLEAN,
                chars : {<<"@", "@">>}]
HunkLines == [kind : {"text"}, start : {0}, counts : {FALSE},
              chars : {<<" ", "c">>, <<"+", "x">>, <<"-", "y">>,
                       <<"+", "+", "+", "x">>}]
PatchLines == HunkHeaders \cup HunkLines
\* What "git diff --name-only --diff-filter=U" lists after a failed merge.
UnmergedFiles == {<<"a.txt">>, <<"a.txt", "b.txt">>}
\* JavaScript's undefined, as it prints inside a template literal.
Undefined == "undefined"
\* What is checked out when the action starts (the workflow's own checkout).
InitialHead == "initial"

VARIABLES
  pc,            \* position of run / checkForConflicts / attemptMerge
  prAuthor,      \* pullRequest.user.login (focal PR's author)
  otherUsers,    \* otherOpenPullRequests: the authors, in list order
  idx,           \* position of the for loop of run (1-based)
  pr1Branch,     \* run's pr1Branch
  pr1Files,      \* run's pr1Files
  pr2Branch,     \* checkForConflicts' pr2Branch
  conflictData,  \* attemptMerge's conflictData: file -> line numbers
  todo,          \* conflictFileNames not yet visited by the for loop
  thrown,        \* label of the step whose error is propagating, or "none"
  conflictArray, \* run's conflictArray
  reviewers,     \* the reviewers lists requestReviews has computed: none
                 \* before it runs, one after
  failedBy,      \* core.setFailed: label of the step whose error reached
                 \* run's catch, or "none"
  refs,          \* branches b whose refs/remotes/origin/tmp_<b> exists
  head,          \* checked-out ref: InitialHead or b for tmp_<b>
  merge,         \* "none" | "pending" (uncommitted merge result) | "conflicted"
  started,       \* pairs whose attemptMerge issued its first git command
  cleaned,       \* pairs whose finally block has run to its end or thrown
  evaluated,     \* pairs for which checkForConflicts was called
  disjoint,      \* pairs whose changed-file sets did not overlap
  refFail,       \* pairs whose branch ref could not be resolved or fetched
  mergeErr,      \* pairs whose merge of tmp_<pr2> failed without the
                 \* "Automatic merge failed" output
  cleanupFail,   \* pairs whose reset --hard or update-ref -d failed
  notifyFail,    \* a notification step threw
  commented,     \* createConflictComment posted the report
  \* extractConflictingLineNumbers
  line,          \* the loop's line, or Undefined before the first one
  nread,         \* number of lines the loop has visited
  lineCounter,
  conflictLines,
  oursBlock,
  theirsBlock,
  inOursBlock,
  inTheirsBlock,
  conflictStartLine,
  openedAt,      \* lineCounter when the last conflict-open marker was read
  blockOk,       \* the markers since that conflict-open marker came in order
  malformed,     \* some marker of the file came out of order
  closedBlock,   \* the block the last step closed: at most one record
  \* src/unnamed/part_001: parsePatchText, getChangedFilesData,
  \* checkForConflicts
  patchRead,     \* number of lines of the patch text visited
  currentNewLineNumber,
  changes,
  changedFilesData,
  openPRChangedFilesData,
  conflictInfo,
  hunkStart,     \* new-range start of the last hunk header read, 0 if none
  hunkLinesKept, \* lines other than deletions read since that header
  additionsAt,   \* post-image line numbers of the addition lines read
  \* createConflictComment: the text written for one file
  lineNumbers,
  rendered,      \* at most one record: the label and the joined numbers
  \* src/unnamed/part_000
  tasks,         \* the checkForConflicts call made for each other pull request
  lastReturn     \* how attemptMerge returned in the last step: at most one

vars == <<pc, prAuthor, otherUsers, idx, pr1Branch, pr1Files, pr2Branch,
          conflictData, todo, thrown, conflictArray, reviewers,
          failedBy, refs, head, merge, started, cleaned, evaluated, disjoint,
          refFail, mergeErr, cleanupFail, notifyFail, commented,
          line, nread, lineCounter, conflictLines, oursBlock, theirsBlock,
          inOursBlock, inTheirsBlock, conflictStartLine, openedAt, blockOk,
          malformed, closedBlock, patchRead, currentNewLineNumber, changes,
          changedFilesData, openPRChangedFilesData, conflictInfo, hunkStart,
          hunkLinesKept, additionsAt, lineNumbers, rendered, tasks,
          lastReturn>>

runVars == <<prAuthor, otherUsers, idx, pr1Branch, pr1Files, conflictArray,
             reviewers, failedBy>>
pairVars == <<pr2Branch, conflictData, todo>>
parserVars == <<line, nread, lineCounter, conflictLines, oursBlock,
                theirsBlock, inOursBlock, inTheirsBlock, conflictStartLine,
                openedAt, blockOk, malformed, closedBlock>>
patchVars == <<patchRead, currentNewLineNumber, changes, changedFilesData,
               openPRChangedFilesData, conflictInfo, hunkStart,
               hunkLinesKept, additionsAt>>
renderVars == <<lineNumbers, rendered>>
taskVars == <<tasks, lastReturn>>
\* The variables that run of src/index.js does not drive.
calleeVars == <<parserVars, patchVars, renderVars, taskVars>>
gitVars == <<refs, head, merge>>
histVars == <<started, cleaned, evaluated, disjoint, refFail, mergeErr,
              cleanupFail, notifyFail, commented>>

\* The empty mapping {} (and the empty array [] checkForConflicts returns).
EmptyData == [f \in {} |-> << >>]

\* Object.keys(conflictData)
Keys(data) == DOMAIN data

\* extractConflictingLineNumbers before its loop.
ParserInit ==
  /\ line = Undefined
  /\ nread = 0
  /\ lineCounter = 0
  /\ conflictLines = << >>
  /\ oursBlock = << >>
  /\ theirsBlock = << >>
  /\ inOursBlock = FALSE
  /\ inTheirsBlock = FALSE
  /\ conflictStartLine = 0
  /\ openedAt = 0
  /\ blockOk = FALSE
  /\ malformed = FALSE
  /\ closedBlock = {}

\* parsePatchText before its loop.
ParseInit ==
  /\ patchRead = 0
  /\ currentNewLineNumber = 0
  /\ changes = << >>
  /\ hunkStart = 0
  /\ hunkLinesKept = 0
  /\ additionsAt = << >>

\* run3 before the first getChangedFilesData, checkForConflicts not called.
PatchInit ==
  /\ ParseInit
  /\ changedFilesData = EmptyData
  /\ openPRChangedFilesData = EmptyData
  /\ conflictInfo = [hasConflict |-> FALSE, conflicts |-> << >>]

\* No file of a record is being written.
RenderInit ==
  /\ lineNumbers = << >>
  /\ rendered = {}

\* No checkForConflicts call of src/unnamed/part_000 has been made.
TasksInit ==
  /\ tasks = << >>
  /\ lastReturn = {}

\* The variables of run, checkForConflicts and attemptMerge at the start.
RunInit ==
  /\ prAuthor \in FocalAuthors
  /\ otherUsers = << >>
  /\ idx = 1
  /\ pr1Branch = Undefined
  /\ pr1Files = {}
  /\ pr2Branch = Undefined
  /\ conflictData = EmptyData
  /\ todo = {}
  /\ thrown = "none"
  /\ conflictArray = << >>
  /\ reviewers = {}
  /\ failedBy = "none"
  /\ refs = {}
  /\ head = InitialHead
  /\ merge = "none"
  /\ started = {}
  /\ cleaned = {}
  /\ evaluated = {}
  /\ disjoint = {}
  /\ refFail = {}
  /\ mergeErr = {}
  /\ cleanupFail = {}
  /\ notifyFail = FALSE
  /\ commented = FALSE

Init ==
  /\ pc = "getOpenPullRequests"
  /\ RunInit
  /\ ParserInit
  /\ PatchInit
  /\ RenderInit
  /\ TasksInit

\* --------------------------------------------------------- pure helpers
\* Faulty variant: the filter keeps every file of the focal pull request.
overlappingFilesUnfiltered(files1, files2) == files1

\* pr1Files.filter((file) => pr2Files.includes(file))
overlappingFiles(files1, files2) == {f \in files1 : f \in files2}

\* [...new Set(xs)]: the distinct elements of xs, each at its first position.
RECURSIVE Distinct(_)
Distinct(xs) ==
  IF xs = << >> THEN << >>
  ELSE LET rest == Distinct(SubSeq(xs, 1, Len(xs) - 1))
           last == xs[Len(xs)]
       IN IF \E j \in 1..Len(rest) : rest[j] = last
          THEN rest ELSE Append(rest, last)

\* conflictArray.map((conflict) => conflict.user)
ConflictUsers(arr) == [j \in 1..Len(arr) |-> arr[j].user]

\* Faulty variant: the focal author is not filtered out.
ReviewerListUnfiltered(arr, author) == Distinct(ConflictUsers(arr))

\* requestReviews' reviewers.
ReviewerList(arr, author) ==
  LET NotAuthor(u) == u /= author
  IN Distinct(SelectSeq(ConflictUsers(arr), NotAuthor))

\* Faulty variant: the record is pushed without the test of Object.keys.
PushRecordAlways(arr, k, user, data) ==
  Append(arr, [number |-> k, user |-> user, conflictData |-> data])

\* run's loop body after checkForConflicts returned data for pull request k.
PushRecord(arr, k, user, data) ==
  IF Cardinality(Keys(data)) > 0
  THEN Append(arr, [number |-> k, user |-> user, conflictData |-> data])
  ELSE arr

\* Faulty variant: no test that theirsBlock has a line at the index.
BlockConflictsUnguarded(start, ours, theirs) ==
  LET Differs(p) == p > Len(theirs) \/ ours[p] /= theirs[p]
      Positions == SelectSeq([p \in 1..Len(ours) |-> p], Differs)
  IN  [k \in 1..Len(Positions) |-> start + Positions[k] - 1]

\* Faulty variant: the numbers are counted from one past conflictStartLine.
BlockConflictsFromOne(start, ours, theirs) ==
  LET Differs(p) == p <= Len(theirs) /\ ours[p] /= theirs[p]
      Positions == SelectSeq([p \in 1..Len(ours) |-> p], Differs)
  IN  [k \in 1..Len(Positions) |-> start + Positions[k]]

\* The numbers one block close pushes: conflictStartLine + index for every
\* index of oursBlock at which theirsBlock has a line and the lines differ.
\* Index i of the source is position i + 1 here.
BlockConflicts(start, ours, theirs) ==
  LET Differs(p) == p <= Len(theirs) /\ ours[p] /= theirs[p]
      Positions == SelectSeq([p \in 1..Len(ours) |-> p], Differs)
  IN  [k \in 1..Len(Positions) |-> start + Positions[k] - 1]

\* String.prototype.startsWith on the characters of a line.
StartsWith(chars, prefix) ==
  /\ Len(chars) >= Len(prefix)
  /\ SubSeq(chars, 1, Len(prefix)) = prefix

\* line.match(/@@ -\d+,\d+ \+(\d+),\d+ @@/): both ranges must carry a count.
LineNumberMatch(l) == l.kind = "hunk" /\ l.counts

\* Array.prototype.includes on an array of objects: the same object, which
\* the id stands for, and not an object with equal fields.
Includes(arr, obj) == \E k \in 1..Len(arr) : arr[k].id = obj.id

\* Array.prototype.join on an array of numbers.
RECURSIVE Join(_, _)
Join(xs, separator) ==
  IF xs = << >> THEN ""
  ELSE IF Len(xs) = 1 THEN ToString(xs[1])
  ELSE ToString(xs[1]) \o separator \o Join(Tail(xs), separator)

\* The elements of a set of numbers in ascending order.
RECURSIVE Ascending(_)
Ascending(S) ==
  IF S = {} THEN << >>
  ELSE LET least == CHOOSE x \in S : \A y \in S : x <= y
       IN  <<least>> \o Ascending(S \ {least})

\* ----------------------------------------------------- control transfer
\* A thrown error that no try block of the callee handles reaches run's catch.
Throw(label) == pc' = "catch" /\ thrown' = label

\* Faulty variant: the cleanup runs on the success path only, not in a finally.
AmOnErrorSkipsFinally == "am_return"

\* attemptMerge's catch logs the error; control falls into the finally block.
AmOnError == "am_reset"

\* The catch around the merge of tmp_<pr2>: list the unmerged paths when the
\* output carries the signature, else fall out of the try into the finally.
AmOnMergeError(automaticMergeFailed) ==
  IF automaticMergeFailed THEN "am_diff" ELSE "am_reset"

\* Faulty variant: the finally block deletes no ref.
AmDeletedRefsNone(branch2) == {}

\* The refs the finally block of attemptMerge deletes.
AmDeletedRefs(branch2) == {branch2}

\* The ref attemptMerge checks out as the baseline of the merge.
AmCheckoutRef(branch1, branch2) == branch2

\* Faulty variant: the catch blocks log without rethrowing; run goes on.
NotifyOnErrorSwallowed(label) ==
  /\ pc' = CASE label = "createConflictComment" -> "requestReviews"
              [] label = "requestReviews" -> "requestReviewsInConflictingPRs"
              [] OTHER -> "cleanup"
  /\ UNCHANGED thrown

\* The catch blocks of the notification functions log and rethrow.
NotifyOnError(label) == Throw(label)

\* prefetchBranches' catch logs; run goes on with the loop.
PrefetchOnError == "loop"

\* An uncommitted merge that reported success: "Already up to date" leaves the
\* workspace as it was, a real merge leaves its result pending.
MergedOk(m) == {m, "pending"}

\* ------------------------------------------------------------------ run
GetOpenPullRequests ==
  /\ pc = "getOpenPullRequests"
  /\ \/ /\ \E n \in 0..MaxPRs : otherUsers' \in [1..n -> Users]
        /\ pc' = "getBranchName"
        /\ UNCHANGED thrown
     \/ /\ Throw("getOpenPullRequests")
        /\ UNCHANGED otherUsers
  /\ UNCHANGED <<prAuthor, idx, pr1Branch, pr1Files, conflictArray, reviewers,
                 failedBy, pairVars, gitVars, histVars>>
  /\ UNCHANGED calleeVars

GetBranchName ==
  /\ pc = "getBranchName"
  /\ \/ /\ pr1Branch' \in FocalBranches
        /\ pc' = "getChangedFiles"
        /\ UNCHANGED thrown
     \/ /\ Throw("getBranchName")
        /\ UNCHANGED pr1Branch
  /\ UNCHANGED <<prAuthor, otherUsers, idx, pr1Files, conflictArray, reviewers,
                 failedBy, pairVars, gitVars, histVars>>
  /\ UNCHANGED calleeVars

GetChangedFiles ==
  /\ pc = "getChangedFiles"
  /\ \/ /\ pr1Files' \in SUBSET Files
        /\ pc' = "pf_config"
        /\ UNCHANGED thrown
     \/ /\ Throw("getChangedFiles")
        /\ UNCHANGED pr1Files
  /\ UNCHANGED <<prAuthor, otherUsers, idx, pr1Branch, conflictArray,
                 reviewers, failedBy, pairVars, gitVars, histVars>>
  /\ UNCHANGED calleeVars

\* ------------------------------------------------------ prefetchBranches
\* pr1Branch is never falsy here: getBranchName throws before returning one.
PrefetchConfig ==
  /\ pc = "pf_config"
  /\ \/ pc' = "pf_fetchMain"
     \/ pc' = PrefetchOnError
  /\ UNCHANGED <<thrown, runVars, pairVars, gitVars, histVars>>
  /\ UNCHANGED calleeVars

PrefetchFetchMain ==
  /\ pc = "pf_fetchMain"
  /\ \/ pc' = "pf_fetchPr1"
     \/ pc' = PrefetchOnError
  /\ UNCHANGED <<thrown, runVars, pairVars, gitVars, histVars>>
  /\ UNCHANGED calleeVars

PrefetchFetchPr1 ==
  /\ pc = "pf_fetchPr1"
  /\ \/ /\ refs' = refs \cup {pr1Branch}
        /\ pc' = "pf_checkout"
     \/ /\ pc' = PrefetchOnError
        /\ UNCHANGED refs
  /\ UNCHANGED <<thrown, runVars, pairVars, head, merge, histVars>>
  /\ UNCHANGED calleeVars

PrefetchCheckout ==
  /\ pc = "pf_checkout"
  /\ \/ /\ head' = pr1Branch
        /\ pc' = "pf_mergeMain"
     \/ /\ pc' = PrefetchOnError
        /\ UNCHANGED head
  /\ UNCHANGED <<thrown, runVars, pairVars, refs, merge, histVars>>
  /\ UNCHANGED calleeVars

PrefetchMergeMain ==
  /\ pc = "pf_mergeMain"
  /\ \/ merge' \in MergedOk(merge)
     \/ merge' = "conflicted"
     \/ UNCHANGED merge
  /\ pc' = "loop"
  /\ UNCHANGED <<thrown, runVars, pairVars, refs, head, histVars>>
  /\ UNCHANGED calleeVars

\* -------------------------------------------------- run: the for loop
\* The head of the for loop over otherOpenPullRequests, and the test of
\* conflictArray.length that follows the loop.
Loop ==
  /\ pc = "loop"
  /\ pr2Branch' = Undefined
  /\ \/ /\ idx <= Len(otherUsers)
        /\ pc' = "cf_getBranchName"
        /\ evaluated' = evaluated \cup {idx}
     \/ /\ idx > Len(otherUsers)
        /\ Len(conflictArray) > 0
        /\ pc' = "createConflictComment"
        /\ UNCHANGED evaluated
     \/ /\ idx > Len(otherUsers)
        /\ Len(conflictArray) = 0
        /\ pc' = "cleanup"
        /\ UNCHANGED evaluated
  /\ UNCHANGED <<thrown, runVars, conflictData, todo, gitVars, started,
                 cleaned, disjoint, refFail, mergeErr, cleanupFail,
                 notifyFail, commented>>
  /\ UNCHANGED calleeVars

\* ------------------------------------------------------ checkForConflicts
CheckGetBranchName ==
  /\ pc = "cf_getBranchName"
  /\ \/ /\ pr2Branch' \in Branches
        /\ pc' = "cf_getChangedFiles"
        /\ UNCHANGED <<thrown, refFail>>
     \/ /\ Throw("cf_getBranchName")
        /\ refFail' = refFail \cup {idx}
        /\ UNCHANGED pr2Branch
  /\ UNCHANGED <<runVars, conflictData, todo, gitVars, started,
                 cleaned, evaluated, disjoint, mergeErr, cleanupFail,
                 notifyFail, commented>>
  /\ UNCHANGED calleeVars

\* getChangedFiles, the overlap test, and run's test of the empty result
\* when the file sets do not overlap.
CheckGetChangedFiles ==
  /\ pc = "cf_getChangedFiles"
  /\ \/ /\ \E pr2Files \in SUBSET Files :
             /\ IF overlappingFiles(pr1Files, pr2Files) = {}
                THEN /\ pc' = "loop"
                     /\ idx' = idx + 1
                     /\ conflictArray' =
                          PushRecord(conflictArray, idx, otherUsers[idx],
                                     EmptyData)
                ELSE /\ pc' = "am_fetch"
                     /\ UNCHANGED <<idx, conflictArray>>
             /\ disjoint' = IF pr1Files \cap pr2Files = {}
                            THEN disjoint \cup {idx} ELSE disjoint
        /\ UNCHANGED <<thrown, refFail>>
     \/ /\ Throw("cf_getChangedFiles")
        /\ refFail' = refFail \cup {idx}
        /\ UNCHANGED <<idx, conflictArray, disjoint>>
  /\ UNCHANGED <<prAuthor, otherUsers, pr1Branch, pr1Files, reviewers,
                 failedBy, pr2Branch, conflictData, todo, gitVars, started,
                 cleaned, evaluated, mergeErr, cleanupFail, notifyFail,
                 commented>>
  /\ UNCHANGED calleeVars

\* ----------------------------------------------------------- attemptMerge
AmFetch ==
  /\ pc = "am_fetch"
  /\ started' = started \cup {idx}
  /\ \/ /\ refs' = refs \cup {pr2Branch}
        /\ pc' = "am_checkout"
        /\ UNCHANGED refFail
     \/ /\ pc' = AmOnError
        /\ refFail' = refFail \cup {idx}
        /\ UNCHANGED refs
  /\ UNCHANGED <<thrown, runVars, pairVars, head, merge, cleaned, evaluated,
                 disjoint, mergeErr, cleanupFail, notifyFail, commented>>
  /\ UNCHANGED calleeVars

AmCheckout ==
  /\ pc = "am_checkout"
  /\ \/ /\ head' = AmCheckoutRef(pr1Branch, pr2Branch)
        /\ pc' = "am_mergeMain"
     \/ /\ pc' = AmOnError
        /\ UNCHANGED head
  /\ UNCHANGED <<thrown, runVars, pairVars, refs, merge, histVars>>
  /\ UNCHANGED calleeVars

\* The inner catch logs the error and rethrows it to the outer catch.
AmMergeMain ==
  /\ pc = "am_mergeMain"
  /\ \/ /\ merge' \in MergedOk(merge)
        /\ pc' = "am_merge"
     \/ /\ merge' = "conflicted"
        /\ pc' = AmOnError
     \/ /\ pc' = AmOnError
        /\ UNCHANGED merge
  /\ UNCHANGED <<thrown, runVars, pairVars, refs, head, histVars>>
  /\ UNCHANGED calleeVars

AmMerge ==
  /\ pc = "am_merge"
  /\ \/ /\ merge' \in MergedOk(merge)
        /\ pc' = "am_reset"
        /\ UNCHANGED mergeErr
     \/ /\ merge' = "conflicted"
        /\ pc' = AmOnMergeError(TRUE)
        /\ UNCHANGED mergeErr
     \/ /\ pc' = AmOnMergeError(FALSE)
        /\ mergeErr' = mergeErr \cup {idx}
        /\ UNCHANGED merge
  /\ UNCHANGED <<thrown, runVars, pairVars, refs, head, started, cleaned,
                 evaluated, disjoint, refFail, cleanupFail, notifyFail,
                 commented>>
  /\ UNCHANGED calleeVars

\* git diff --name-only --diff-filter=U, split into conflictFileNames.
AmDiff ==
  /\ pc = "am_diff"
  /\ \/ \E names \in SUBSET Files :
          /\ todo' = names
          /\ pc' = IF names = {} THEN "am_reset" ELSE "am_extract"
     \/ /\ pc' = AmOnError
        /\ UNCHANGED todo
  /\ UNCHANGED <<thrown, runVars, pr2Branch, conflictData, gitVars,
                 histVars>>
  /\ UNCHANGED calleeVars

\* One turn of the loop over conflictFileNames; readFileSync may throw.
AmExtract ==
  /\ pc = "am_extract"
  /\ \/ \E f \in todo, lines \in ExtractResults :
          /\ conflictData' =
               [g \in Keys(conflictData) \cup {f} |->
                  IF g = f THEN lines ELSE conflictData[g]]
          /\ todo' = todo \ {f}
          /\ pc' = IF todo' = {} THEN "am_reset" ELSE "am_extract"
     \/ /\ pc' = AmOnError
        /\ todo' = {}
        /\ UNCHANGED conflictData
  /\ UNCHANGED <<thrown, runVars, pr2Branch, gitVars, histVars>>
  /\ UNCHANGED calleeVars

\* finally: git reset --hard HEAD
AmReset ==
  /\ pc = "am_reset"
  /\ \/ /\ merge' = "none"
        /\ pc' = "am_delete"
        /\ UNCHANGED <<thrown, cleaned, cleanupFail>>
     \/ /\ Throw("am_reset")
        /\ cleaned' = cleaned \cup {idx}
        /\ cleanupFail' = cleanupFail \cup {idx}
        /\ UNCHANGED merge
  /\ UNCHANGED <<runVars, pairVars, refs, head, started, evaluated, disjoint,
                 refFail, mergeErr, notifyFail, commented>>
  /\ UNCHANGED calleeVars

\* finally: git update-ref -d refs/remotes/origin/tmp_<pr2Branch>
AmDelete ==
  /\ pc = "am_delete"
  /\ cleaned' = cleaned \cup {idx}
  /\ \/ /\ refs' = refs \ AmDeletedRefs(pr2Branch)
        /\ pc' = "am_return"
        /\ UNCHANGED <<thrown, cleanupFail>>
     \/ /\ Throw("am_delete")
        /\ cleanupFail' = cleanupFail \cup {idx}
        /\ UNCHANGED refs
  /\ UNCHANGED <<runVars, pairVars, head, merge, started, evaluated, disjoint,
                 refFail, mergeErr, notifyFail, commented>>
  /\ UNCHANGED calleeVars

\* attemptMerge and checkForConflicts return conflictData; run pushes a
\* record when it has keys and moves to the next pull request.
AmReturn ==
  /\ pc = "am_return"
  /\ conflictArray' =
       PushRecord(conflictArray, idx, otherUsers[idx], conflictData)
  /\ conflictData' = EmptyData
  /\ idx' = idx + 1
  /\ pc' = "loop"
  /\ UNCHANGED <<thrown, prAuthor, otherUsers, pr1Branch, pr1Files, reviewers,
                 failedBy, pr2Branch, todo, gitVars, histVars>>
  /\ UNCHANGED calleeVars

\* ----------------------------------------------------------- notification
CreateConflictComment ==
  /\ pc = "createConflictComment"
  /\ \/ /\ pc' = "requestReviews"
        /\ commented' = TRUE
        /\ UNCHANGED <<thrown, notifyFail>>
     \/ /\ NotifyOnError("createConflictComment")
        /\ notifyFail' = TRUE
        /\ UNCHANGED commented
  /\ UNCHANGED <<runVars, pairVars, gitVars, started, cleaned, evaluated,
                 disjoint, refFail, mergeErr, cleanupFail>>
  /\ UNCHANGED calleeVars

RequestReviews ==
  /\ pc = "requestReviews"
  /\ reviewers' = {ReviewerList(conflictArray, prAuthor)}
  /\ \/ /\ pc' = "requestReviewsInConflictingPRs"
        /\ UNCHANGED <<thrown, notifyFail>>
     \/ /\ NotifyOnError("requestReviews")
        /\ notifyFail' = TRUE
  /\ UNCHANGED <<prAuthor, otherUsers, idx, pr1Branch, pr1Files,
                 conflictArray, failedBy, pairVars, gitVars, started, cleaned,
                 evaluated, disjoint, refFail, mergeErr, cleanupFail,
                 commented>>
  /\ UNCHANGED calleeVars

\* A request is sent only for a conflict whose author is not prAuthor, so
\* only then can one fail.
RequestReviewsInConflictingPRs ==
  /\ pc = "requestReviewsInConflictingPRs"
  /\ \/ /\ pc' = "cleanup"
        /\ UNCHANGED <<thrown, notifyFail>>
     \/ /\ \E j \in 1..Len(conflictArray) : conflictArray[j].user /= prAuthor
        /\ NotifyOnError("requestReviewsInConflictingPRs")
        /\ notifyFail' = TRUE
  /\ UNCHANGED <<runVars, pairVars, gitVars, started, cleaned, evaluated,
                 disjoint, refFail, mergeErr, cleanupFail, commented>>
  /\ UNCHANGED calleeVars

\* ------------------------------------------------- run: catch and finally
Catch ==
  /\ pc = "catch"
  /\ failedBy' = thrown
  /\ pc' = "cleanup"
  /\ UNCHANGED <<thrown, prAuthor, otherUsers, idx, pr1Branch, pr1Files,
                 conflictArray, reviewers, pairVars, gitVars, histVars>>
  /\ UNCHANGED calleeVars

\* cleanup(pr1Branch): the deletion's own error is logged, not thrown.
Cleanup ==
  /\ pc = "cleanup"
  /\ \/ refs' = refs \ {pr1Branch}
     \/ UNCHANGED refs
  /\ pc' = "done"
  /\ UNCHANGED <<thrown, runVars, pairVars, head, merge, histVars>>
  /\ UNCHANGED calleeVars

Next ==
  \/ GetOpenPullRequests
  \/ GetBranchName
  \/ GetChangedFiles
  \/ PrefetchConfig
  \/ PrefetchFetchMain
  \/ PrefetchFetchPr1
  \/ PrefetchCheckout
  \/ PrefetchMergeMain
  \/ Loop
  \/ CheckGetBranchName
  \/ CheckGetChangedFiles
  \/ AmFetch
  \/ AmCheckout
  \/ AmMergeMain
  \/ AmMerge
  \/ AmDiff
  \/ AmExtract
  \/ AmReset
  \/ AmDelete
  \/ AmReturn
  \/ CreateConflictComment
  \/ RequestReviews
  \/ RequestReviewsInConflictingPRs
  \/ Catch
  \/ Cleanup

Spec == Init /\ [][Next]_vars

\* -------------------------------------- extractConflictingLineNumbers
\* One turn of the loop over the file's lines is one step; the line is drawn
\* when it is read.  attemptMerge stores the returned list under the file's
\* name.  The variables of run stay as they are.

\* lineCounter after the increment that opens the loop body.
Counted == IF ~inOursBlock /\ ~inTheirsBlock THEN lineCounter + 1
           ELSE lineCounter

\* Another line may be read; a line of text needs room in the block it joins.
CanRead(l) ==
  /\ pc = "extract"
  /\ nread < MaxLines
  /\ l \in TextLines /\ inOursBlock => Len(oursBlock) < MaxBlockLen
  /\ l \in TextLines /\ ~inOursBlock /\ inTheirsBlock =>
       Len(theirsBlock) < MaxBlockLen

ParserIdle ==
  UNCHANGED <<runVars, pr2Branch, todo, thrown, gitVars, histVars, patchVars,
              renderVars, taskVars>>

ExtractOpenMarker ==
  \E l \in OpenMarkers :
    /\ CanRead(l)
    /\ line' = l
    /\ nread' = nread + 1
    /\ lineCounter' = Counted
    /\ inOursBlock' = TRUE
    /\ conflictStartLine' = Counted
    /\ openedAt' = Counted
    /\ blockOk' = (~inOursBlock /\ ~inTheirsBlock)
    /\ malformed' = (malformed \/ inOursBlock \/ inTheirsBlock)
    /\ closedBlock' = {}
    /\ UNCHANGED <<pc, conflictData, conflictLines, oursBlock, theirsBlock,
                   inTheirsBlock>>
    /\ ParserIdle

ExtractSeparator ==
  \E l \in SeparatorMarkers :
    /\ CanRead(l)
    /\ line' = l
    /\ nread' = nread + 1
    /\ lineCounter' = Counted
    /\ inOursBlock' = FALSE
    /\ inTheirsBlock' = TRUE
    /\ blockOk' = (blockOk /\ inOursBlock /\ ~inTheirsBlock)
    /\ malformed' = (malformed \/ ~inOursBlock \/ inTheirsBlock)
    /\ closedBlock' = {}
    /\ UNCHANGED <<pc, conflictData, conflictLines, oursBlock, theirsBlock,
                   conflictStartLine, openedAt>>
    /\ ParserIdle

ExtractCloseMarker ==
  \E l \in CloseMarkers :
    LET pushed == BlockConflicts(conflictStartLine, oursBlock, theirsBlock)
        inOrder == ~inOursBlock /\ inTheirsBlock
    IN  /\ CanRead(l)
        /\ line' = l
        /\ nread' = nread + 1
        /\ lineCounter' = Counted
        /\ inTheirsBlock' = FALSE
        /\ conflictLines' = conflictLines \o pushed
        /\ oursBlock' = << >>
        /\ theirsBlock' = << >>
        /\ closedBlock' = {[start |-> conflictStartLine,
                            openedAt |-> openedAt,
                            ours |-> oursBlock,
                            theirs |-> theirsBlock,
                            pushed |-> pushed,
                            wellFormed |-> blockOk /\ inOrder]}
        /\ blockOk' = FALSE
        /\ malformed' = (malformed \/ ~inOrder)
        /\ UNCHANGED <<pc, conflictData, inOursBlock, conflictStartLine,
                       openedAt>>
        /\ ParserIdle

ExtractOtherLine ==
  \E l \in TextLines :
    /\ CanRead(l)
    /\ line' = l
    /\ nread' = nread + 1
    /\ lineCounter' = Counted
    /\ oursBlock' = IF inOursBlock THEN Append(oursBlock, l) ELSE oursBlock
    /\ theirsBlock' = IF ~inOursBlock /\ inTheirsBlock
                      THEN Append(theirsBlock, l) ELSE theirsBlock
    /\ closedBlock' = {}
    /\ UNCHANGED <<pc, conflictData, conflictLines, inOursBlock,
                   inTheirsBlock, conflictStartLine, openedAt, blockOk,
                   malformed>>
    /\ ParserIdle

\* The file has no more lines: the list goes into conflictData.
ExtractReturn ==
  \E f \in Files :
    /\ pc = "extract"
    /\ nread >= 1
    /\ pc' = "extracted"
    /\ conflictData' = [g \in {f} |-> conflictLines]
    /\ malformed' = (malformed \/ inOursBlock \/ inTheirsBlock)
    /\ closedBlock' = {}
    /\ UNCHANGED <<line, nread, lineCounter, conflictLines, oursBlock,
                   theirsBlock, inOursBlock, inTheirsBlock,
                   conflictStartLine, openedAt, blockOk>>
    /\ ParserIdle

ParserStart ==
  /\ pc = "extract"
  /\ RunInit
  /\ ParserInit
  /\ PatchInit
  /\ RenderInit
  /\ TasksInit

ParserNext ==
  \/ ExtractOpenMarker
  \/ ExtractSeparator
  \/ ExtractCloseMarker
  \/ ExtractOtherLine
  \/ ExtractReturn

ParserSpec == ParserStart /\ [][ParserNext]_vars

\* ------------------------------------------------ src/unnamed/part_001
\* run3 parses the focal pull request's patch, then the other pull
\* request's, and hands both results to checkForConflicts.  One turn of the
\* loop of parsePatchText is one step; the line is drawn when it is read.  A
\* patch text begins with a hunk header.  The context window of a change is
\* left out: nothing reads it.

Parsing == pc \in {"parse_changed", "parse_openPR"}

CanParse(l) ==
  /\ Parsing
  /\ patchRead < MaxPatchLines
  /\ patchRead = 0 => l.kind = "hunk"

PatchIdle ==
  UNCHANGED <<runVars, pairVars, thrown, gitVars, histVars, parserVars,
              renderVars, taskVars>>

\* The line is a hunk header that the pattern matches.
ParseHunkHeader ==
  \E l \in PatchLines :
    /\ CanParse(l)
    /\ LineNumberMatch(l)
    /\ patchRead' = patchRead + 1
    /\ currentNewLineNumber' = l.start - 1
    /\ hunkStart' = l.start
    /\ hunkLinesKept' = 0
    /\ UNCHANGED <<pc, changes, changedFilesData, openPRChangedFilesData,
                   conflictInfo, additionsAt>>
    /\ PatchIdle

\* Any other line, a hunk header that the pattern does not match included.
ParseLine ==
  \E l \in PatchLines :
    LET minus == StartsWith(l.chars, <<"-">>)
        counted == IF ~minus THEN currentNewLineNumber + 1
                   ELSE currentNewLineNumber
        changed == /\ StartsWith(l.chars, <<"+">>)
                   /\ ~StartsWith(l.chars, <<"+", "+", "+">>)
    IN  /\ CanParse(l)
        /\ ~LineNumberMatch(l)
        /\ patchRead' = patchRead + 1
        /\ currentNewLineNumber' = counted
        /\ changes' =
             IF changed
             THEN Append(changes,
                         [id |-> <<pc, Len(changes) + 1>>,
                          lineNumber |-> counted,
                          content |-> Tail(l.chars)])
             ELSE changes
        /\ hunkStart' = IF l.kind = "hunk" THEN l.start ELSE hunkStart
        /\ hunkLinesKept' = IF l.kind = "hunk" THEN 0
                            ELSE IF minus THEN hunkLinesKept
                            ELSE hunkLinesKept + 1
        /\ additionsAt' =
             IF l.kind = "text" /\ l.chars[1] = "+"
             THEN Append(additionsAt, hunkStart + hunkLinesKept)
             ELSE additionsAt
        /\ UNCHANGED <<pc, changedFilesData, openPRChangedFilesData,
                       conflictInfo>>
        /\ PatchIdle

\* parsePatchText returns and getChangedFilesData files the changes under
\* the file's name.
ParseReturn ==
  \E f \in Files :
    /\ Parsing
    /\ patchRead >= 1
    /\ IF pc = "parse_changed"
       THEN /\ changedFilesData' = [g \in {f} |-> changes]
            /\ pc' = "parse_openPR"
            /\ UNCHANGED openPRChangedFilesData
       ELSE /\ openPRChangedFilesData' = [g \in {f} |-> changes]
            /\ pc' = "checkForConflicts3"
            /\ UNCHANGED changedFilesData
    /\ patchRead' = 0
    /\ currentNewLineNumber' = 0
    /\ changes' = << >>
    /\ hunkStart' = 0
    /\ hunkLinesKept' = 0
    /\ additionsAt' = << >>
    /\ UNCHANGED conflictInfo
    /\ PatchIdle

\* The entries checkForConflicts pushes for the files of changedFilesData.
RECURSIVE Conflicts(_, _, _)
Conflicts(filePaths, changed, openPR) ==
  IF filePaths = {} THEN << >>
  ELSE LET filePath == CHOOSE f \in filePaths : TRUE
           rest == Conflicts(filePaths \ {filePath}, changed, openPR)
           overlappingLines ==
             IF filePath \in Keys(openPR)
             THEN SelectSeq(changed[filePath],
                            LAMBDA c : Includes(openPR[filePath], c))
             ELSE << >>
       IN  IF Len(overlappingLines) > 0
           THEN <<[file |-> filePath, lines |-> overlappingLines]>> \o rest
           ELSE rest

CheckForConflicts3 ==
  /\ pc = "checkForConflicts3"
  /\ LET conflicts == Conflicts(Keys(changedFilesData), changedFilesData,
                                openPRChangedFilesData)
     IN  conflictInfo' = [hasConflict |-> Len(conflicts) > 0,
                          conflicts |-> conflicts]
  /\ pc' = "checked"
  /\ UNCHANGED <<patchRead, currentNewLineNumber, changes, changedFilesData,
                 openPRChangedFilesData, hunkStart, hunkLinesKept,
                 additionsAt>>
  /\ PatchIdle

PatchStart ==
  /\ pc = "parse_changed"
  /\ RunInit
  /\ ParserInit
  /\ PatchInit
  /\ RenderInit
  /\ TasksInit

PatchNext ==
  \/ ParseHunkHeader
  \/ ParseLine
  \/ ParseReturn
  \/ CheckForConflicts3

PatchSpec == PatchStart /\ [][PatchNext]_vars

\* ------------------------------------ createConflictComment: one file
\* The text that the loop over Object.entries(data.conflictData) writes after
\* the link of one file, for an ascending list without duplicates.

RenderIdle ==
  UNCHANGED <<runVars, pairVars, thrown, gitVars, histVars, parserVars,
              patchVars, taskVars>>

RenderFile ==
  /\ pc = "render"
  /\ rendered' = {[label |-> IF Len(lineNumbers) > 1 THEN "Lines" ELSE "Line",
                   numbers |-> Join(lineNumbers, ", ")]}
  /\ pc' = "rendered"
  /\ UNCHANGED lineNumbers
  /\ RenderIdle

RenderStart ==
  /\ pc = "render"
  /\ RunInit
  /\ ParserInit
  /\ PatchInit
  /\ TasksInit
  /\ rendered = {}
  /\ \E S \in SUBSET (1..MaxLineNumber) : lineNumbers = Ascending(S)

RenderNext == RenderFile

RenderSpec == RenderStart /\ [][RenderNext]_vars

\* ------------------------------------------------ src/unnamed/part_000
\* run calls checkForConflicts without await: the call runs up to its first
\* await and hands run a pending promise.  run has no await between the loop
\* and the first statement of createConflictComment, so the calls go on only
\* once run has come to its end; from then on they interleave at their
\* awaits.  attemptMerge has no await: it is one step.

NotCalled == [at |-> "notCalled", pr1Branch |-> Undefined, pr1Files |-> {},
              conflictFiles |-> << >>]

Settled(t) == t.at \in {"resolved", "rejected"}

TaskIdle ==
  UNCHANGED <<prAuthor, pr1Branch, pr1Files, reviewers, pairVars, refs,
              histVars, parserVars, patchVars, renderVars>>

Run0GetOpenPullRequests ==
  /\ pc = "run0"
  /\ \/ /\ \E n \in 0..MaxPRs : otherUsers' \in [1..n -> Users]
        /\ tasks' = [k \in DOMAIN otherUsers' |-> NotCalled]
        /\ pc' = "loop0"
        /\ UNCHANGED thrown
     \/ /\ pc' = "catch0"
        /\ thrown' = "getOpenPullRequests"
        /\ UNCHANGED <<otherUsers, tasks>>
  /\ UNCHANGED <<idx, conflictArray, failedBy, head, merge, lastReturn>>
  /\ TaskIdle

\* One turn of the for loop: the promise is truthy, the entry is pushed.
Run0Loop ==
  /\ pc = "loop0"
  /\ IF idx <= Len(otherUsers)
     THEN /\ tasks' = [tasks EXCEPT ![idx].at = "getBranchName1"]
          /\ conflictArray' =
               Append(conflictArray,
                      [number |-> idx, user |-> otherUsers[idx],
                       conflictFiles |-> [promise |-> idx]])
          /\ idx' = idx + 1
          /\ UNCHANGED pc
     ELSE /\ pc' = IF Len(conflictArray) > 0 THEN "createConflictComment0"
                   ELSE "done0"
          /\ UNCHANGED <<tasks, conflictArray, idx>>
  /\ UNCHANGED <<otherUsers, thrown, failedBy, head, merge, lastReturn>>
  /\ TaskIdle

\* conflict.conflictFiles is a promise: forEach is not a function, and the
\* TypeError goes on to run.
Run0CreateConflictComment ==
  /\ pc = "createConflictComment0"
  /\ pc' = "catch0"
  /\ thrown' = "createConflictComment"
  /\ UNCHANGED <<otherUsers, idx, conflictArray, failedBy, head, merge,
                 tasks, lastReturn>>
  /\ TaskIdle

Run0Catch ==
  /\ pc = "catch0"
  /\ failedBy' = thrown
  /\ pc' = "done0"
  /\ UNCHANGED <<otherUsers, idx, conflictArray, thrown, head, merge, tasks,
                 lastReturn>>
  /\ TaskIdle

TaskRest ==
  /\ UNCHANGED <<pc, otherUsers, idx, conflictArray, thrown, failedBy>>
  /\ TaskIdle

\* checkForConflicts, resumed after one of its getBranchName calls.
Task0GetBranchName ==
  \E k \in DOMAIN tasks :
    /\ pc = "done0"
    /\ \/ /\ tasks[k].at = "getBranchName1"
          /\ \E b \in FocalBranches :
               tasks' = [tasks EXCEPT ![k].at = "getBranchName2",
                                      ![k].pr1Branch = b]
       \/ /\ tasks[k].at = "getBranchName2"
          /\ tasks' = [tasks EXCEPT ![k].at = "getChangedFiles1"]
       \/ /\ tasks[k].at \in {"getBranchName1", "getBranchName2"}
          /\ tasks' = [tasks EXCEPT ![k].at = "rejected"]
    /\ lastReturn' = {}
    /\ UNCHANGED <<head, merge>>
    /\ TaskRest

\* checkForConflicts, resumed after one of its getChangedFiles calls; after
\* the second it returns [] or goes on to attemptMerge.
Task0GetChangedFiles ==
  \E k \in DOMAIN tasks :
    /\ pc = "done0"
    /\ \/ /\ tasks[k].at = "getChangedFiles1"
          /\ \E files \in SUBSET Files :
               tasks' = [tasks EXCEPT ![k].at = "getChangedFiles2",
                                      ![k].pr1Files = files]
       \/ /\ tasks[k].at = "getChangedFiles2"
          /\ \E pr2Files \in SUBSET Files :
               tasks' = [tasks EXCEPT
                           ![k].at =
                             IF overlappingFiles(tasks[k].pr1Files,
                                                 pr2Files) = {}
                             THEN "resolved" ELSE "attemptMerge"]
       \/ /\ tasks[k].at \in {"getChangedFiles1", "getChangedFiles2"}
          /\ tasks' = [tasks EXCEPT ![k].at = "rejected"]
    /\ lastReturn' = {}
    /\ UNCHANGED <<head, merge>>
    /\ TaskRest

\* attemptMerge(pr1, pr2), from its first statement to its return.  git does
\* not start a merge while another one is not concluded.
Task0AttemptMerge ==
  \E k \in DOMAIN tasks :
    LET pr1 == tasks[k].pr1Branch
        Return(files, how) ==
          /\ tasks' = [tasks EXCEPT ![k].at = "resolved",
                                    ![k].conflictFiles = files]
          /\ lastReturn' = {[task |-> k, pr1 |-> pr1, merged |-> how]}
        Reject(how) ==
          /\ tasks' = [tasks EXCEPT ![k].at = "rejected"]
          /\ lastReturn' = {[task |-> k, pr1 |-> pr1, merged |-> how]}
    IN  /\ pc = "done0"
        /\ tasks[k].at = "attemptMerge"
        /\ \/ \* git checkout throws; the catch lets the error go
              /\ Return(<< >>, "error")
              /\ UNCHANGED <<head, merge>>
           \/ \* the merge reports success
              /\ merge = "none"
              /\ head' = pr1
              /\ merge' \in MergedOk(merge)
              /\ Return(<< >>, IF merge' = "pending" THEN "merged"
                               ELSE "upToDate")
           \/ \* the merge fails on a conflict and the message says so
              /\ merge = "none"
              /\ head' = pr1
              /\ \/ /\ merge' = "none"
                    /\ \E files \in UnmergedFiles : Return(files, "conflict")
                 \/ \* git diff or git merge --abort throws
                    /\ merge' = "conflicted"
                    /\ Reject("conflict")
           \/ \* the merge fails on a conflict and the message does not say so
              /\ merge = "none"
              /\ head' = pr1
              /\ merge' = "conflicted"
              /\ Return(<< >>, "conflict")
           \/ \* the merge throws for another reason
              /\ head' = pr1
              /\ UNCHANGED merge
              /\ Return(<< >>, "error")
        /\ TaskRest

Run0Start ==
  /\ pc = "run0"
  /\ RunInit
  /\ ParserInit
  /\ PatchInit
  /\ RenderInit
  /\ TasksInit

Run0Next ==
  \/ Run0GetOpenPullRequests
  \/ Run0Loop
  \/ Run0CreateConflictComment
  \/ Run0Catch
  \/ Task0GetBranchName
  \/ Task0GetChangedFiles
  \/ Task0AttemptMerge

Run0Spec == Run0Start /\ [][Run0Next]_vars

\* ================================================================ claims
\* Steps of attemptMerge's finally block, of checkForConflicts' API calls
\* and of the notification, as labels of thrown errors.
CleanupLabels == {"am_reset", "am_delete"}
ResolveLabels == {"cf_getBranchName", "cf_getChangedFiles"}
NotifyLabels == {"createConflictComment", "requestReviews",
                 "requestReviewsInConflictingPRs"}

\* attemptMerge has just handed control back: it returned, or its finally
\* block threw and the error is on its way to run's catch.
AmHandedBack ==
  \/ pc = "am_return"
  \/ pc = "catch" /\ thrown \in CleanupLabels

\* No record of conflictArray is about pull request k.
NoRecord(k) == \A j \in 1..Len(conflictArray) : conflictArray[j].number /= k

\* The pull requests after k in otherOpenPullRequests.
After(k) == (k + 1)..Len(otherUsers)

\* The pair before the loop's current one ran attemptMerge and returned.
PairJustReturned ==
  pc = "loop" /\ idx > 1 /\ (idx - 1) \in started

\* C1: whenever attemptMerge hands control back to run, by returning or by
\* throwing, refs/remotes/origin/tmp_<pr2Branch> no longer exists.
C1_TempRefGoneOnExit == AmHandedBack => pr2Branch \notin refs

\* C2: when attemptMerge attempts the merge of tmp_<pr2Branch>, the
\* checked-out baseline is the focal pull request's tmp_<pr1Branch>.
C2_MergeIntoFocalSide == pc = "am_merge" => head = pr1Branch

C4_PairsSequential ==
  \A i \in started : \A j \in started : i < j => i \in cleaned

\* Two pairs ran git commands, the first one through its error path.
C4_Witness == 1 \in started /\ 2 \in started /\ 1 \in refFail

\* C5: a pair with disjoint changed-file sets runs no git command and
\* leaves no record.
C5_DisjointSkipsStrategy ==
  \A k \in disjoint : k \notin started /\ NoRecord(k)

\* The focal pull request changed files, a pair was found disjoint and the
\* loop has moved past it, and another pair left a record.
C5_Witness ==
  /\ pr1Files /= {}
  /\ \E k \in disjoint : k < idx
  /\ Len(conflictArray) > 0

\* C6: a failure to resolve or fetch the branch of pull request k does not
\* fail the run, leaves no record for k, and every later pull request is
\* still evaluated.
C6_RefFailureNotFatal ==
  \A k \in refFail :
    /\ thrown \notin ResolveLabels
    /\ NoRecord(k)
    /\ pc = "done" => After(k) \subseteq evaluated

\* C7: when the merge of tmp_<pr2Branch> fails without "Automatic merge
\* failed", attemptMerge returns the empty mapping: nothing reaches run's
\* catch, no record is pushed, and the later pairs are evaluated.
C7_MergeErrorIndeterminate ==
  \A k \in mergeErr :
    /\ NoRecord(k)
    /\ k = idx => conflictData = EmptyData /\ ~(pc = "catch")
    /\ pc = "done" => After(k) \subseteq evaluated

\* C8: a failing git reset --hard or update-ref -d of a pair never fails
\* the run: core.setFailed is not called for it, the records accumulated
\* so far are reported, and the later pairs are evaluated.
C8_CleanupFailureNotFatal ==
  \A k \in cleanupFail :
    /\ failedBy \notin CleanupLabels
    /\ pc = "done" =>
         /\ After(k) \subseteq evaluated
         /\ Len(conflictArray) > 0 => commented \/ notifyFail

\* C9: a notification step that throws ends the run failed: its error is
\* on its way to run's catch or core.setFailed was called with it.
C9_NotificationFailureFails ==
  notifyFail =>
    \/ pc = "catch" /\ thrown \in NotifyLabels
    \/ failedBy \in NotifyLabels

\* The run has ended after requestReviews threw.
C9_Witness ==
  pc = "done" /\ notifyFail /\ failedBy = "requestReviews" /\ commented

\* The elements of a sequence.
Range(xs) == {xs[j] : j \in 1..Len(xs)}

\* C10: the reviewers list has no duplicates and holds exactly the authors
\* of the conflicting pull requests other than the focal author.
C10_ReviewersDistinctNoAuthor ==
  \A list \in reviewers :
    /\ \A a, b \in 1..Len(list) : list[a] = list[b] => a = b
    /\ Range(list) = Range(ConflictUsers(conflictArray)) \ {prAuthor}

\* The reviewers were computed from a conflictArray in which the focal
\* author also authored a conflicting pull request.
C10_Witness ==
  /\ reviewers /= {}
  /\ prAuthor \in Range(ConflictUsers(conflictArray))
  /\ \E list \in reviewers : Len(list) > 0

\* checkForConflicts is handing run a mapping with at least one file.
ReturnsNonempty == pc = "am_return" /\ Keys(conflictData) /= {}

\* C11: run pushes a record for pull request idx exactly when the pair's
\* result is a nonempty mapping, and then one record only; an empty
\* prefilter result or an empty mapping leaves conflictArray as it was.
C11_RecordIffNonemptyResult ==
  [][/\ ReturnsNonempty =>
          /\ NoRecord(idx)
          /\ conflictArray' =
               Append(conflictArray,
                      [number |-> idx, user |-> otherUsers[idx],
                       conflictData |-> conflictData])
     /\ ~ReturnsNonempty => conflictArray' = conflictArray]_vars

\* The first pair ran attemptMerge and left no record, the second left one.
C11_Witness ==
  /\ idx = 3
  /\ 1 \in started
  /\ NoRecord(1)
  /\ ~NoRecord(2)

\* ------------------------------------- extractConflictingLineNumbers claims
Shorter(b) == IF Len(b.ours) <= Len(b.theirs) THEN Len(b.ours)
              ELSE Len(b.theirs)
Longer(b) == IF Len(b.ours) <= Len(b.theirs) THEN Len(b.theirs)
             ELSE Len(b.ours)

\* C12: a well-formed block opened at line-counter value s pushes exactly the
\* numbers s + i for the indices i below the length of the shorter side at
\* which the two sides differ, each once.
C12_WellFormedBlockPushes ==
  \A b \in closedBlock :
    b.wellFormed =>
      LET differing == {i \in 0..(Shorter(b) - 1) :
                          b.ours[i + 1] /= b.theirs[i + 1]}
      IN  /\ Range(b.pushed) = {b.openedAt + i : i \in differing}
          /\ Len(b.pushed) = Cardinality(differing)

\* The block O = [a, b], T = [a, a] has just been closed and pushed s + 1.
C12_Witness ==
  \E b \in closedBlock :
    /\ b.wellFormed
    /\ b.ours = <<"a", "b">>
    /\ b.theirs = <<"a", "a">>
    /\ b.pushed = <<b.openedAt + 1>>

\* C13 as stated: every index at which the sides differ is pushed, an index
\* that only one side has included.
C13_OneSidedIndexPushed ==
  \A b \in closedBlock :
    \A i \in 0..(Longer(b) - 1) :
      (i >= Shorter(b) \/ b.ours[i + 1] /= b.theirs[i + 1]) =>
        b.start + i \in Range(b.pushed)

\* C13: at a block close conflictStartLine + index is pushed exactly for the
\* indices that both sides have and at which their lines differ; an index
\* that only one side has is never pushed.
C13_SharedIndexPushed ==
  \A b \in closedBlock :
    /\ \A i \in 0..(Longer(b) - 1) :
         b.start + i \in Range(b.pushed) <=>
           (i < Shorter(b) /\ b.ours[i + 1] /= b.theirs[i + 1])
    /\ Range(b.pushed) \subseteq {b.start + i : i \in 0..(Longer(b) - 1)}

\* A block with a longer ours side: index 0 differs and is pushed, index 1 is
\* in ours only and is not.
C13_Witness ==
  \E b \in closedBlock :
    /\ b.ours = <<"a", "b">>
    /\ b.theirs = <<"b">>
    /\ b.pushed = <<b.start>>

\* C14: the list stored in conflictData for a file of well-formed blocks is
\* strictly increasing, whatever the number of blocks.
C14_StoredLinesAscending ==
  pc = "extracted" /\ ~malformed =>
    \A f \in Keys(conflictData) :
      \A i, j \in 1..Len(conflictData[f]) :
        i < j => conflictData[f][i] < conflictData[f][j]

\* The state of the parser, from its two flags.
ParserState ==
  IF inOursBlock /\ inTheirsBlock THEN "BOTH"
  ELSE IF inOursBlock THEN "IN_OURS"
  ELSE IF inTheirsBlock THEN "IN_THEIRS"
  ELSE "NORMAL"

\* C15: the parser changes state only from NORMAL to IN_OURS on a
\* conflict-open marker, from IN_OURS to IN_THEIRS on a separator and from
\* IN_THEIRS to NORMAL on a conflict-close marker; a separator read in NORMAL
\* leaves it in NORMAL, where the counter goes on.
C15_OnlyThreeTransitions ==
  [][ParserState' /= ParserState =>
       \/ /\ ParserState = "NORMAL"
          /\ line' \in OpenMarkers
          /\ ParserState' = "IN_OURS"
       \/ /\ ParserState = "IN_OURS"
          /\ line' \in SeparatorMarkers
          /\ ParserState' = "IN_THEIRS"
       \/ /\ ParserState = "IN_THEIRS"
          /\ line' \in CloseMarkers
          /\ ParserState' = "NORMAL"]_vars
\* --------------------------------------------- src/unnamed/part_001 claims
\* The post-image line numbers of a list of changes.
LineNumbers(cs) == {cs[k].lineNumber : k \in 1..Len(cs)}

\* The files that checkForConflicts reported.
Reported == {conflictInfo.conflicts[k].file :
               k \in 1..Len(conflictInfo.conflicts)}

\* C16: checkForConflicts reports file f exactly when both change sets hold
\* a change of f with the same post-image line number, and hasConflict says
\* whether any file is reported.
C16_OverlapIffSameLineNumber ==
  pc = "checked" =>
    /\ \A f \in Files :
         f \in Reported <=>
           /\ f \in Keys(changedFilesData)
           /\ f \in Keys(openPRChangedFilesData)
           /\ LineNumbers(changedFilesData[f])
                \cap LineNumbers(openPRChangedFilesData[f]) /= {}
    /\ conflictInfo.hasConflict <=> Reported /= {}

\* C17: the changes recorded so far are the addition lines read so far, each
\* at its hunk's new-range start plus the number of lines other than
\* deletions read before it in the hunk.
C17_AdditionsAtPostImageLine ==
  Parsing =>
    /\ Len(changes) = Len(additionsAt)
    /\ \A k \in 1..Len(changes) : changes[k].lineNumber = additionsAt[k]
\* ------------------------------------------- createConflictComment claims
\* The last position of the run of consecutive integers that begins at i.
RECURSIVE RunEnd(_, _)
RunEnd(xs, i) ==
  IF i < Len(xs) /\ xs[i + 1] = xs[i] + 1 THEN RunEnd(xs, i + 1) ELSE i

\* The range formatter of the specification, from position i on.
RECURSIVE FormatFrom(_, _)
FormatFrom(xs, i) ==
  IF i > Len(xs) THEN ""
  ELSE LET j == RunEnd(xs, i)
           piece == IF j = i THEN ToString(xs[i])
                    ELSE ToString(xs[i]) \o "..." \o ToString(xs[j])
       IN  IF j = Len(xs) THEN piece
           ELSE piece \o ", " \o FormatFrom(xs, j + 1)

\* C18: the line numbers of a file are written as the range formatter
\* renders them: "start...end" for a maximal run of consecutive integers, the
\* integer itself when isolated, joined by ", ".
C18_RenderedAsRanges ==
  \A r \in rendered : r.numbers = FormatFrom(lineNumbers, 1)
\* --------------------------------------------- src/unnamed/part_000 claims
\* C19: every entry of conflictArray is for a pull request whose
\* checkForConflicts call has returned a nonempty list of files, and
\* createConflictComment is not called before every call has come to its end.
C19_EntryAfterCheckCompleted ==
  /\ \A i \in 1..Len(conflictArray) :
       LET t == tasks[conflictArray[i].number]
       IN  t.at = "resolved" /\ t.conflictFiles /= << >>
  /\ thrown = "createConflictComment" =>
       \A k \in DOMAIN tasks : Settled(tasks[k])

\* C20: attemptMerge returns from a merge that reported success with no
\* merge pending and pr1 checked out.
C20_NoMergePendingOnReturn ==
  \A r \in lastReturn :
    r.merged \in {"merged", "upToDate"} => merge = "none" /\ head = r.pr1
\* ------------------------------------------------- workspace and reports
\* C21: when attemptMerge is about to issue the first git command of a pair,
\* the git fetch, the workspace has no merge in progress and no uncommitted
\* merge result.
C21_NoMergeAtFirstCommand == pc = "am_fetch" => merge = "none"

\* C22: every file of every conflictData stored in conflictArray has at least
\* one line number.
C22_StoredFilesHaveLines ==
  \A i \in 1..Len(conflictArray) :
    \A f \in Keys(conflictArray[i].conflictData) :
      conflictArray[i].conflictData[f] /= << >>

\* extractConflictingLineNumbers returns the empty list for a file all of
\* whose markers came in order and that held a block.
ReturnsEmptyForBlocks ==
  /\ pc = "extracted"
  /\ ~malformed
  /\ conflictStartLine > 0
  /\ \E f \in Keys(conflictData) : conflictData[f] = << >>

\* C23: after any prefix of any file, inOursBlock and inTheirsBlock are not
\* both true.
C23_FlagsExclusive == ~(inOursBlock /\ inTheirsBlock)
====
